---- MODULE Spec2Model ----
(***************************************************************************)
(* womscp-server, src/init.rs: configuration resolution (ServerConfig::new *)
(* and the TryFrom conversions) followed by database provisioning          *)
(* (server_init).                                                          *)
(***************************************************************************)
EXTENDS Integers, Sequences, FiniteSets, TLC

VARIABLES
    file,           \* the path handed to the resolution
    fs,             \* what the filesystem holds at that path
    entry,          \* which resolution entry point ran (none before it)
    result,         \* outcome of the resolution
    pc,             \* position inside server_init
    conn,           \* the SqlitePool of the current server_init run
    m_id, s_id,     \* loop variables of server_init
    db,             \* the database named by server_config.database
    log,            \* statements the current run has executed, in order
    runs,           \* number of server_init invocations so far
    provisioned     \* some server_init run has returned to its caller

vars ==
    <<file, fs, entry, result, pc, conn, m_id, s_id, db, log, runs, provisioned>>

(***************************************************************************)
(* Bounds of the model.                                                    *)
(***************************************************************************)
MaxM == 2       \* largest microcontroller_count that is provisioned
MaxS == 2       \* largest sensors_per_microcontroller that is provisioned
MaxRuns == 2    \* server_init invocations per behaviour

(***************************************************************************)
(* Configuration values.                                                   *)
(***************************************************************************)
DEFAULT_CONFIG == "config.toml"

Paths == {DEFAULT_CONFIG, "custom.toml"}

Keys == {"address", "database", "microcontroller_count",
         "sensors_per_microcontroller"}

U16_MOD == 65536
U8_MOD == 256

\* _count as u16: an i64 narrowed to 16 bits, two's complement truncation.
AsU16(n) == n % U16_MOD

\* _count as u8
AsU8(n) == n % U8_MOD

\* ServerConfig::default()
Default ==
    [address |-> "127.0.0.1:3000",
     database |-> "sqlite:w_orchid.db",
     microcontroller_count |-> 1,
     sensors_per_microcontroller |-> 2]

(***************************************************************************)
(* TOML values.  A value is a string, an integer or a boolean; Absent      *)
(* marks a key the document does not mention.                              *)
(***************************************************************************)
Absent == [type |-> "absent", v |-> 0]
StrV(s) == [type |-> "string", v |-> s]
IntV(n) == [type |-> "integer", v |-> n]
BoolV(b) == [type |-> "boolean", v |-> b]

\* integers a document may give for a count
IntVals == {-1, 0, 1, 2, 3, 257, 65536, 65538}

\* what a document may say for a string key / for a count key
StrKeyVals == {Absent, StrV("0.0.0.0:8080"), IntV(2), BoolV(TRUE)}
CountKeyVals == {Absent, StrV("two"), BoolV(TRUE)} \cup {IntV(n) : n \in IntVals}

Entries ==
    [address : StrKeyVals,
     database : StrKeyVals,
     microcontroller_count : CountKeyVals,
     sensors_per_microcontroller : CountKeyVals]

\* diagnostics of the TOML parser for a text that is not a document
Diagnostics == {"expected equals", "invalid string"}

\* the text of a file: its syntax (ok, or the diagnostic of the parser) and the
\* key/value pairs written in it
Texts == [syntax : {"ok"} \cup Diagnostics, entries : Entries]

Missing == [kind |-> "missing", text |-> [syntax |-> "ok", entries |-> [k \in Keys |-> Absent]]]
Unreadable == [kind |-> "unreadable", text |-> Missing.text]
FileOf(t) == [kind |-> "file", text |-> t]

FileStates == {Missing, Unreadable} \cup {FileOf(t) : t \in Texts}

(***************************************************************************)
(* Results.                                                                *)
(***************************************************************************)
NoResult == [kind |-> "none"]
Ok(v) == [kind |-> "Ok", val |-> v]
Err(k, m) == [kind |-> "Err", err |-> [kind |-> k, msg |-> m]]
Panic(m) == [kind |-> "panic", msg |-> m]

\* mutant: the existence test always answers yes
ExistsAlways(f) == TRUE

\* Path::exists
Exists(f) == f.kind # "missing"

\* fs::read_to_string
read_to_string(f) ==
    CASE f.kind = "missing" -> Err("NotFound", "No such file or directory")
      [] f.kind = "unreadable" -> Err("PermissionDenied", "Permission denied")
      [] OTHER -> Ok(f.text)

\* mutant: a parser that accepts every text
ParseTableLenient(contents) ==
    LET present == {k \in Keys : contents.entries[k].type # "absent"}
    IN  Ok([k \in present |-> contents.entries[k]])

\* contents.parse::<Table>(): the table holds exactly the keys written in
\* the text
ParseTable(contents) ==
    IF contents.syntax # "ok"
    THEN [kind |-> "Err", message |-> contents.syntax]
    ELSE LET present == {k \in Keys : contents.entries[k].type # "absent"}
         IN  Ok([k \in present |-> contents.entries[k]])

\* Value::as_str
as_str(value) == IF value.type = "string" THEN <<value.v>> ELSE <<>>

\* Value::as_integer
as_integer(value) == IF value.type = "integer" THEN <<value.v>> ELSE <<>>

\* config[key]: Index on toml::Table panics when the key is not in the map
HasKey(config, key) == key \in DOMAIN config

\* one overlay statement of try_from: server_config.key = if let Some(x) =
\* config[key].as_*() { convert(x) } else { server_config.key }
Field(acc, config, key) ==
    IF acc.kind # "Ok" THEN acc
    ELSE IF ~HasKey(config, key) THEN Panic("no entry found for key")
    ELSE LET value == config[key]
             some == IF key \in {"address", "database"}
                     THEN as_str(value) ELSE as_integer(value)
             conv == IF some = <<>> THEN acc.val[key]
                     ELSE IF key = "microcontroller_count" THEN AsU16(some[1])
                     ELSE IF key = "sensors_per_microcontroller" THEN AsU8(some[1])
                     ELSE some[1]
         IN  Ok([acc.val EXCEPT ![key] = conv])

\* impl TryFrom<PathBuf> for ServerConfig
TryFromPathBuf(f) ==
    LET contents == read_to_string(f) IN
    IF contents.kind = "Err" THEN contents
    ELSE LET parsed == ParseTable(contents.val) IN
         IF parsed.kind = "Err" THEN Err("InvalidInput", parsed.message)
         ELSE LET config == parsed.val
                  a == Field(Ok(Default), config, "address")
                  d == Field(a, config, "database")
                  m == Field(d, config, "microcontroller_count")
              IN  Field(m, config, "sensors_per_microcontroller")

\* impl TryFrom<&str> for ServerConfig
TryFromStr(f) == TryFromPathBuf(f)

\* Result::unwrap
Unwrap(r) == IF r.kind = "Err" THEN Panic(r.err.msg) ELSE r

\* ServerConfig::new
New(f) == IF ~Exists(f) THEN Ok(Default) ELSE Unwrap(TryFromStr(f))

(***************************************************************************)
(* The database.  SQLite statements fail for a reason the schema gives     *)
(* (an existing table, a primary key or foreign key conflict) or for one   *)
(* the environment gives (an I/O error), the latter chosen freely.         *)
(***************************************************************************)
Tables == <<"Microcontrollers", "Sensors", "SensorData">>

EmptyDb ==
    [tables |-> {}, Microcontrollers |-> {}, Sensors |-> {}, SensorData |-> {}]

\* mutant: CREATE TABLE IF NOT EXISTS
CreateTableIfNotExists(d, t) == FALSE

\* CREATE TABLE t: fails when t exists
CreateTableConflict(d, t) == t \in d.tables

\* the CREATE TABLE batch may run its first k statements
CreatePrefixOk(d, k) == \A i \in 1..k : ~CreateTableConflict(d, Tables[i])

\* INSERT INTO Microcontrollers VALUES(id): primary key id
InsertMicrocontrollerConflict(d, id) ==
    \/ "Microcontrollers" \notin d.tables
    \/ id \in d.Microcontrollers

\* INSERT INTO Sensors VALUES(m, s): primary key (m_id, s_id), foreign key
\* m_id REFERENCES Microcontrollers(id)
InsertSensorConflict(d, m, s) ==
    \/ "Sensors" \notin d.tables
    \/ <<m, s>> \in d.Sensors
    \/ m \notin d.Microcontrollers

(***************************************************************************)
(* Control flow of server_init.                                            *)
(***************************************************************************)
At(p, m, s) == [pc |-> p, m_id |-> m, s_id |-> s]

\* for m_id in 0..server_config.microcontroller_count: the next iteration
NextMicrocontroller(cfg, m) ==
    IF m + 1 < cfg.microcontroller_count
    THEN At("insert_m", m + 1, 0) ELSE At("close", m, 0)

\* mutant: the sensors of a microcontroller are inserted before its row
AfterCreateSensorsFirst(cfg) ==
    IF 0 < cfg.microcontroller_count
    THEN At("insert_s", 0, 0) ELSE At("close", 0, 0)

\* entering the outer loop
AfterCreate(cfg) ==
    IF 0 < cfg.microcontroller_count
    THEN At("insert_m", 0, 0) ELSE At("close", 0, 0)

\* for s_id in 0..server_config.sensors_per_microcontroller: entering it
AfterInsertMicrocontroller(cfg, m) ==
    IF 0 < cfg.sensors_per_microcontroller
    THEN At("insert_s", m, 0) ELSE NextMicrocontroller(cfg, m)

\* mutant: the inner loop runs over 0..=sensors_per_microcontroller
AfterInsertSensorInclusive(cfg, m, s) ==
    IF s + 1 <= cfg.sensors_per_microcontroller
    THEN At("insert_s", m, s + 1) ELSE NextMicrocontroller(cfg, m)

\* the next iteration of the inner loop
AfterInsertSensor(cfg, m, s) ==
    IF s + 1 < cfg.sensors_per_microcontroller
    THEN At("insert_s", m, s + 1) ELSE NextMicrocontroller(cfg, m)

\* unwrap() on a failed connect
ConnectFailed == "panicked"

\* panic!("Failed to create database tables...")
CreateFailed(cfg) == At("panicked", 0, 0)

\* panic!("Failed to insert into Microntrollers...")
InsertMicrocontrollerFailed(cfg, m) == At("panicked", m, 0)

\* mutant: a failed insert into Sensors is skipped and the loop goes on
InsertSensorFailedSkip(cfg, m, s) == AfterInsertSensor(cfg, m, s)

\* panic!("Failed to insert into Sensors...")
InsertSensorFailed(cfg, m, s) == At("panicked", m, s)

\* mutant: the pool is left as it is
PoolLeak(c) == c

\* conn.close().await
PoolClose(c) == "closed"

Stmt(k, m, s, ok) == [stmt |-> k, m |-> m, s |-> s, ok |-> ok]

server_config == result.val

(***************************************************************************)
(* Initial state: a path, some file state at it, an untouched database.    *)
(***************************************************************************)
Init ==
    /\ file \in Paths
    /\ fs \in FileStates
    /\ entry = "none"
    /\ result = NoResult
    /\ pc = "idle"
    /\ conn = "none"
    /\ m_id = 0
    /\ s_id = 0
    /\ db = EmptyDb
    /\ log = <<>>
    /\ runs = 0
    /\ provisioned = FALSE

unchangedInit == <<pc, conn, m_id, s_id, db, log, runs, provisioned>>
unchangedResolve == <<file, fs, entry, result>>

\* ServerConfig::new(), which reads the fixed path
ResolveNew ==
    /\ entry = "none"
    /\ file = DEFAULT_CONFIG
    /\ entry' = "new"
    /\ result' = New(fs)
    /\ UNCHANGED <<file, fs>>
    /\ UNCHANGED unchangedInit

\* ServerConfig::try_from(&str)
ResolveTryFromStr ==
    /\ entry = "none"
    /\ entry' = "try_from_str"
    /\ result' = TryFromStr(fs)
    /\ UNCHANGED <<file, fs>>
    /\ UNCHANGED unchangedInit

\* ServerConfig::try_from(PathBuf)
ResolveTryFromPathBuf ==
    /\ entry = "none"
    /\ entry' = "try_from_pathbuf"
    /\ result' = TryFromPathBuf(fs)
    /\ UNCHANGED <<file, fs>>
    /\ UNCHANGED unchangedInit

\* a call of server_init(&server_config): connect options are built
Invoke ==
    /\ result.kind = "Ok"
    /\ pc \in {"idle", "returned", "panicked"}
    /\ runs < MaxRuns
    /\ server_config.microcontroller_count <= MaxM
    /\ server_config.sensors_per_microcontroller <= MaxS
    /\ pc' = "connect"
    /\ conn' = "none"
    /\ m_id' = 0
    /\ s_id' = 0
    /\ log' = <<>>
    /\ runs' = runs + 1
    /\ UNCHANGED <<db, provisioned>>
    /\ UNCHANGED unchangedResolve

\* SqlitePool::connect_with(options).await.unwrap()
Connect ==
    /\ pc = "connect"
    /\ \E ok \in BOOLEAN :
        /\ conn' = IF ok THEN "open" ELSE conn
        /\ pc' = IF ok THEN "create" ELSE ConnectFailed
        /\ log' = Append(log, Stmt("connect", 0, 0, ok))
    /\ UNCHANGED <<m_id, s_id, db, runs, provisioned>>
    /\ UNCHANGED unchangedResolve

\* the CREATE TABLE batch: k statements succeed, the next one fails
CreateTables ==
    /\ pc = "create"
    /\ \E k \in 0..Len(Tables) :
        /\ CreatePrefixOk(db, k)
        /\ db' = [db EXCEPT !.tables = @ \cup {Tables[i] : i \in 1..k}]
        /\ log' = Append(log, Stmt("create", 0, 0, k = Len(Tables)))
        /\ LET next == IF k = Len(Tables) THEN AfterCreate(server_config)
                       ELSE CreateFailed(server_config)
           IN  /\ pc' = next.pc
               /\ m_id' = next.m_id
               /\ s_id' = next.s_id
    /\ UNCHANGED <<conn, runs, provisioned>>
    /\ UNCHANGED unchangedResolve

\* INSERT INTO Microcontrollers VALUES(m_id)
InsertMicrocontroller ==
    /\ pc = "insert_m"
    /\ \E io \in BOOLEAN :
        LET ok == io /\ ~InsertMicrocontrollerConflict(db, m_id)
            next == IF ok THEN AfterInsertMicrocontroller(server_config, m_id)
                    ELSE InsertMicrocontrollerFailed(server_config, m_id)
        IN  /\ db' = IF ok THEN [db EXCEPT !.Microcontrollers = @ \cup {m_id}]
                     ELSE db
            /\ log' = Append(log, Stmt("insert_m", m_id, 0, ok))
            /\ pc' = next.pc
            /\ m_id' = next.m_id
            /\ s_id' = next.s_id
    /\ UNCHANGED <<conn, runs, provisioned>>
    /\ UNCHANGED unchangedResolve

\* INSERT INTO Sensors VALUES(m_id, s_id)
InsertSensor ==
    /\ pc = "insert_s"
    /\ \E io \in BOOLEAN :
        LET ok == io /\ ~InsertSensorConflict(db, m_id, s_id)
            next == IF ok THEN AfterInsertSensor(server_config, m_id, s_id)
                    ELSE InsertSensorFailed(server_config, m_id, s_id)
        IN  /\ db' = IF ok THEN [db EXCEPT !.Sensors = @ \cup {<<m_id, s_id>>}]
                     ELSE db
            /\ log' = Append(log, Stmt("insert_s", m_id, s_id, ok))
            /\ pc' = next.pc
            /\ m_id' = next.m_id
            /\ s_id' = next.s_id
    /\ UNCHANGED <<conn, runs, provisioned>>
    /\ UNCHANGED unchangedResolve

\* conn.close().await, then the function returns
Close ==
    /\ pc = "close"
    /\ conn' = PoolClose(conn)
    /\ log' = Append(log, Stmt("close", 0, 0, TRUE))
    /\ pc' = "returned"
    /\ provisioned' = TRUE
    /\ UNCHANGED <<m_id, s_id, db, runs>>
    /\ UNCHANGED unchangedResolve

Next ==
    \/ ResolveNew
    \/ ResolveTryFromStr
    \/ ResolveTryFromPathBuf
    \/ Invoke
    \/ Connect
    \/ CreateTables
    \/ InsertMicrocontroller
    \/ InsertSensor
    \/ Close

Spec == Init /\ [][Next]_vars

(***************************************************************************)
(* Properties.                                                             *)
(***************************************************************************)
AllTables == {Tables[i] : i \in 1..Len(Tables)}
Last(q) == q[Len(q)]
WellFormed == fs.kind = "file" /\ fs.text.syntax = "ok"
Resolved == entry # "none"
ViaTryFrom == entry \in {"try_from_str", "try_from_pathbuf"}
ExpectedType(k) == IF k \in {"address", "database"} THEN "string" ELSE "integer"
Mistyped(k) == fs.text.entries[k].type \notin {"absent", ExpectedType(k)}
IsInsert(e) == e.stmt \in {"insert_m", "insert_s"}
Inserts == SelectSeq(log, IsInsert)

\* C1: when server_init returns, Microcontrollers holds exactly the ids
\* 0..M-1, Sensors holds exactly the M*S pairs (m, s) with m in 0..M-1 and
\* s in 0..S-1, SensorData is empty and the three tables exist.
C1_SeededExactly ==
    pc = "returned" =>
        LET M == server_config.microcontroller_count
            S == server_config.sensors_per_microcontroller
        IN  /\ db.tables = AllTables
            /\ db.Microcontrollers = 0..(M - 1)
            /\ db.Sensors = (0..(M - 1)) \X (0..(S - 1))
            /\ Cardinality(db.Sensors) = M * S
            /\ db.SensorData = {}

\* C1 witness: a run with two microcontrollers of two sensors has returned
C1_Witness ==
    /\ pc = "returned"
    /\ server_config.microcontroller_count = 2
    /\ server_config.sensors_per_microcontroller = 2
    /\ Cardinality(db.Sensors) = 4

\* C2 (as claimed): resolving a well-formed document succeeds and every
\* key absent from it resolves to its default.
C2_AbsentKeyDefaults ==
    (ViaTryFrom /\ WellFormed) =>
        /\ result.kind = "Ok"
        /\ \A k \in Keys :
            fs.text.entries[k].type = "absent" => result.val[k] = Default[k]

\* C3 (as claimed): resolving a well-formed document with a mistyped key
\* succeeds, the mistyped key resolves to its default and every other key
\* resolves from its own entry alone.
C3_MistypedKeyDefaults ==
    (ViaTryFrom /\ WellFormed /\ \E k \in Keys : Mistyped(k)) =>
        /\ result.kind = "Ok"
        /\ \A k \in Keys :
            LET e == fs.text.entries[k] IN
            /\ Mistyped(k) => result.val[k] = Default[k]
            /\ e.type = "absent" => result.val[k] = Default[k]
            /\ (e.type = "string" /\ ExpectedType(k) = "string") =>
                    result.val[k] = e.v
            /\ (e.type = "integer" /\ k = "microcontroller_count") =>
                    result.val[k] = e.v % U16_MOD
            /\ (e.type = "integer" /\ k = "sensors_per_microcontroller") =>
                    result.val[k] = e.v % U8_MOD

\* C4 (as claimed): with no file at the resolution path every entry point
\* returns exactly the default configuration.
C4_MissingFileDefaults ==
    (Resolved /\ fs.kind = "missing") => result = Ok(Default)

\* C4 (amended): with no file at config.toml ServerConfig::new returns
\* exactly the default configuration; the TryFrom conversions on a path
\* with no file fail with the NotFound error of the read and yield no
\* configuration.
C4_MissingFileNewDefaults ==
    (Resolved /\ fs.kind = "missing") =>
        /\ entry = "new" =>
            /\ result = Ok(Default)
            /\ result.val.address = "127.0.0.1:3000"
            /\ result.val.database = "sqlite:w_orchid.db"
            /\ result.val.microcontroller_count = 1
            /\ result.val.sensors_per_microcontroller = 2
        /\ ViaTryFrom => (result.kind = "Err" /\ result.err.kind = "NotFound")

\* C4 witness: new() has run with no file at config.toml
C4_Witness ==
    entry = "new" /\ fs.kind = "missing" /\ result.kind = "Ok"

\* C5: resolving a file whose text is not a well-formed document ends in
\* an error that carries the diagnostic of the parser, never in a
\* configuration, and server_init is never started from it.
C5_MalformedIsFatal ==
    (Resolved /\ fs.kind = "file" /\ fs.text.syntax # "ok") =>
        /\ result.kind \in {"Err", "panic"}
        /\ result.kind = "Err" =>
            (result.err.kind = "InvalidInput" /\ result.err.msg = fs.text.syntax)
        /\ result.kind = "panic" => result.msg = fs.text.syntax
        /\ pc = "idle"
        /\ runs = 0
        /\ db = EmptyDb

\* C5 witness: a malformed text that mentions keys has been resolved
C5_Witness ==
    /\ ViaTryFrom
    /\ fs.kind = "file"
    /\ fs.text.syntax = "invalid string"
    /\ fs.text.entries.address.type = "string"
    /\ result.kind = "Err"

\* C6: once a run of server_init has returned, a later run fails no later
\* than its CREATE TABLE batch: it executes no insert, never returns, and
\* leaves every table and row as the first run left them.
C6_SecondRunFails ==
    [][provisioned =>
        /\ db' = db
        /\ pc' \in {"connect", "create", "panicked"}
        /\ (pc = "create" => pc' = "panicked")
        /\ \A i \in 1..Len(log') : ~IsInsert(log'[i])]_vars

\* C6 witness: the CREATE TABLE batch of a second run has failed on a
\* seeded database
C6_Witness ==
    /\ provisioned
    /\ pc = "panicked"
    /\ Len(log) = 2
    /\ Last(log).stmt = "create"
    /\ db.Sensors # {}

\* C7: server_init has returned only with its pool closed; the close is
\* the last statement of the run and statements run on an open pool only.
C7_ClosedBeforeReturn ==
    /\ pc = "returned" => conn = "closed"
    /\ conn = "closed" => pc = "returned"
    /\ pc \in {"create", "insert_m", "insert_s", "close"} => conn = "open"
    /\ \A i \in 1..Len(log) : log[i].stmt = "close" => i = Len(log)
    /\ pc = "returned" => Last(log).stmt = "close"

\* C7 witness: a run that inserted rows has returned
C7_Witness ==
    /\ pc = "returned"
    /\ conn = "closed"
    /\ Len(Inserts) > 0

\* C8: the inserts of a run are a prefix of the microcontroller-major,
\* sensor-minor order, and every Sensors row refers to a Microcontrollers
\* row, in every state.
C8_InsertOrder ==
    /\ \A p \in db.Sensors : p[1] \in db.Microcontrollers
    /\ Len(Inserts) > 0 =>
        LET S == server_config.sensors_per_microcontroller
            M == server_config.microcontroller_count
        IN  /\ Len(Inserts) <= M * (S + 1)
            /\ \A i \in 1..Len(Inserts) :
                LET m == (i - 1) \div (S + 1)
                    r == (i - 1) % (S + 1)
                IN  /\ Inserts[i].m = m
                    /\ r = 0 => Inserts[i].stmt = "insert_m"
                    /\ r > 0 => (Inserts[i].stmt = "insert_s" /\ Inserts[i].s = r - 1)

\* C8 witness: a run stopped by a failing insert into Sensors of the second
\* microcontroller
C8_Witness ==
    /\ pc = "panicked"
    /\ Last(log).stmt = "insert_s"
    /\ Last(log).m = 1
    /\ db.Sensors # {}

\* C9: a failing step is the last statement of its run; the run panics at
\* it, never returns, and what the database held before the step stays.
C9_AbortNoRollback ==
    [][/\ \A i \in 1..Len(log') :
            ~log'[i].ok => (i = Len(log') /\ pc' = "panicked")
       /\ pc' = "panicked" =>
            /\ db.tables \subseteq db'.tables
            /\ db'.Microcontrollers = db.Microcontrollers
            /\ db'.Sensors = db.Sensors
            /\ ~Last(log').ok
       /\ pc = "panicked" => (pc' = "connect" /\ db' = db)]_vars

\* C9 witness: a run stopped by a failing insert after rows were written
C9_Witness ==
    /\ pc = "panicked"
    /\ IsInsert(Last(log))
    /\ db.Microcontrollers # {}
    /\ db.Sensors # {}

\* C10 (as claimed): resolving a well-formed document that gives an integer
\* for a count succeeds with the integer reduced modulo 2^16
\* (microcontroller_count) or 2^8 (sensors_per_microcontroller), and a run
\* of server_init that returns has seeded that many rows.
C10_CountsWrap ==
    (ViaTryFrom /\ WellFormed) =>
        LET em == fs.text.entries.microcontroller_count
            es == fs.text.entries.sensors_per_microcontroller
        IN  /\ em.type = "integer" =>
                /\ result.kind = "Ok"
                /\ result.val.microcontroller_count = em.v % U16_MOD
                /\ pc = "returned" =>
                    Cardinality(db.Microcontrollers) = em.v % U16_MOD
            /\ es.type = "integer" =>
                /\ result.kind = "Ok"
                /\ result.val.sensors_per_microcontroller = es.v % U8_MOD

====
